---- MODULE Spec2Model ----
(***************************************************************************)
(* A model of rust_shm_ipc: the bounded blocking Queue over a RingBuffer   *)
(* guarded by a pthread mutex and two condition variables (queue.rs,       *)
(* pthread.rs), and the reference-counted shared region Shm with           *)
(* process::spawn (shm.rs, process.rs).                                    *)
(***************************************************************************)
EXTENDS Integers, Sequences, FiniteSets, TLC

\* ------------------------------------------------------------------ bounds
\* Number of push calls the threads of a behaviour make in total.
MaxPush == 9
\* ... with one producer and one consumer.
MaxPushSpsc == 19
\* Pushes beyond the ring's capacity, and pops, in the overflow-escape scenario.
ExtraPush == 2
MaxPops == 1
\* Shm values (handles) a behaviour creates in total, over all processes.
MaxHandles == 3
\* Push calls made on the payload while handles are cloned and dropped.
MaxPushShm == 2
\* Push calls of the producers under fair scheduling, and items taken
\* before the consumers stop calling pop.
MaxPushMpmc == 10
MaxPopsMpmc == 2
\* The clock runs from 0 to MaxTime; a timed_pop waits up to MaxDuration.
MaxTime == 4
MaxDuration == 2
\* Push calls made while one thread calls timed_pop against the clock.
MaxPushTimed == 3

\* ------------------------------------------------------- program constants
RING_BUFFER_SIZE == 8

\* Option<T>: None is the empty sequence, Some(v) the one-element sequence.
None == <<>>
Some(v) == <<v>>

\* ------------------------------------------------------------------ threads
Producers == {"p1", "p2"}
Consumers == {"c1", "c2"}
Threads == Producers \cup Consumers
NoThread == "free"

\* ---------------------------------------------------- processes and handles
\* The parent process runs two threads; each child process runs its closure.
ParentThreads == {"main", "thr"}
Children == {"ch1", "ch2"}
Actors == ParentThreads \cup Children
Procs == {"parent"} \cup Children
proc(a) == IF a \in Children THEN a ELSE "parent"
HandleIds == 1..MaxHandles
\* AtomicUsize arithmetic wraps; the model keeps 16 of its bits.
UsizeModulus == 2^16

\* ------------------------------------------------------ shared-memory names
\* The names thread_rng().gen_ascii_chars().take(10) can produce.
Names == {"name1", "name2", "name3"}
FirstName == "name1"
\* No Shm::new is in progress.
NoCall == [pc |-> "idle", shm_path |-> "none", opens |-> 0]


VARIABLES
    rb,          \* the RingBuffer: [write_idx, read_idx, buffer]
    mutex,       \* owner of Queue.buffer's pthread mutex, or NoThread
    in_wait,     \* threads blocked in pthread_cond_(timed)wait on in_cond
    out_wait,    \* threads blocked in pthread_cond_wait on out_cond
    pc,          \* per thread: position inside push/pop/try_pop/timed_pop
    val,         \* per thread: the argument of the push in progress
    res,         \* per thread: the Option the pop in progress will return
    nextVal,     \* the next value a push call carries (values are distinct)
    returned,    \* per value returned by a pop: how many calls returned it
    nret,        \* number of values returned by pop calls so far
    writes,      \* number of successful RingBuffer::write calls
    takes,       \* number of try_read calls that took a value
    waited,      \* per thread: the push in progress has waited on out_cond
    sigOut,      \* per thread: the call in progress has signalled out_cond
    lockSlot,    \* per thread: read_idx when try_pop acquired the mutex
    lockSeen,    \* per thread: the slot at read_idx when try_pop acquired it
    ref_ctr,     \* ShmInner.ref_ctr, in the shared region
    handles,     \* per handle id: the Shm value's state, owner, ...
    cst,         \* per child process: "unborn", "running" or "exited"
    borrow,      \* per child: its closure refers to a handle of the parent
    mapped,      \* per process: the region is mapped in its address space
    faulted,     \* processes that touched the region after their munmap
    destroyed,   \* how many times the payload destructor has run
    zeroed,      \* how many times ref_ctr has been brought to zero
    now,         \* the wall clock (SystemTime::now()), in ticks
    time,        \* per thread: the Duration argument of its timed_pop
    start,       \* per thread: the clock when its timed_pop was called
    abstime,     \* per thread: the deadline timed_wait computed
    err,         \* per thread: the Result of the call in progress
    prog,        \* per thread: its caller's position: "run" or "done"
    shm_names,   \* names present in the system's shared-memory namespace
    newst        \* the Shm::new call in progress: [pc, shm_path, opens]

sync == <<mutex, in_wait, out_wait>>
hist == <<nextVal, returned, nret, writes, takes>>
aux == <<waited, sigOut, lockSlot, lockSeen>>
qvars == <<rb, sync, pc, val, res, hist, aux>>

svars == <<ref_ctr, handles, cst, borrow, mapped, faulted, destroyed, zeroed>>

tvars == <<now, time, start, abstime>>
cvars == <<err, prog>>
nvars == <<shm_names, newst>>
xvars == <<tvars, cvars, nvars>>

vars == <<qvars, svars, xvars>>

\* ------------------------------------------------------------ RingBufferIdx
\* forward without the wrap: self.idx += 1 alone.
forward_no_wrap(idx) == idx + 1

\* self.idx += 1; self.idx %= self.bufsize  -- bufsize is RING_BUFFER_SIZE
forward(idx) == (idx + 1) % RING_BUFFER_SIZE

\* --------------------------------------------------------------- RingBuffer
RingBufferNew ==
    [write_idx |-> 0, read_idx |-> 0,
     buffer |-> [i \in 0..(RING_BUFFER_SIZE - 1) |-> None]]

\* try_read without the is_some() test: read_idx advances on an empty slot too.
try_read_always_forward(r) ==
    [ret |-> r.buffer[r.read_idx],
     rb  |-> [r EXCEPT !.buffer[r.read_idx] = None,
                       !.read_idx = forward(r.read_idx)]]

\* try_read that only looks at the slot: nothing is consumed.
try_read_peek(r) ==
    [ret |-> r.buffer[r.read_idx], rb |-> r]

\* try_read copying the slot instead of take(): the slot stays present.
try_read_copy(r) ==
    LET current == r.buffer[r.read_idx] IN
    [ret |-> current,
     rb  |-> [r EXCEPT !.read_idx = IF current # None THEN forward(r.read_idx)
                                    ELSE r.read_idx]]

\* try_read: take the slot at read_idx; advance read_idx if it was present.
try_read(r) ==
    LET current == r.buffer[r.read_idx] IN
    [ret |-> current,
     rb  |-> [r EXCEPT !.buffer[r.read_idx] = None,
                       !.read_idx = IF current # None THEN forward(r.read_idx)
                                    ELSE r.read_idx]]

\* write without the is_none() test: a full ring is overwritten.
write_overwrite(r, value) ==
    [ret |-> "Ok",
     rb  |-> [r EXCEPT !.buffer[r.write_idx] = Some(value),
                       !.write_idx = forward(r.write_idx)]]

\* write: fill the slot at write_idx if it is empty, else Overflow.
write(r, value) ==
    IF r.buffer[r.write_idx] = None
    THEN [ret |-> "Ok",
          rb  |-> [r EXCEPT !.buffer[r.write_idx] = Some(value),
                            !.write_idx = forward(r.write_idx)]]
    ELSE [ret |-> "Overflow", rb |-> r]

\* ------------------------------------------------------- pthread primitives
\* pthread_cond_signal: wakes one waiter if there is one.
SignalWakes(waiters) ==
    IF waiters = {} THEN {{}} ELSE {{w} : w \in waiters}

QInit ==
    /\ rb = RingBufferNew
    /\ mutex = NoThread
    /\ in_wait = {}
    /\ out_wait = {}
    /\ pc = [t \in Threads |-> "idle"]
    /\ val = [t \in Threads |-> 0]
    /\ res = [t \in Threads |-> None]
    /\ nextVal = 1
    /\ returned = <<>>
    /\ nret = 0
    /\ writes = 0
    /\ takes = 0
    /\ waited = [t \in Threads |-> FALSE]
    /\ sigOut = [t \in Threads |-> FALSE]
    /\ lockSlot = [t \in Threads |-> 0]
    /\ lockSeen = [t \in Threads |-> None]

\* The clock starts at 0; no call is in progress; the region of SInit was
\* created under the first name and nothing has removed that name since.
XInit ==
    /\ now = 0
    /\ time = [t \in Threads |-> 0]
    /\ start = [t \in Threads |-> 0]
    /\ abstime = [t \in Threads |-> 0]
    /\ err = [t \in Threads |-> "Ok"]
    /\ prog = [t \in Threads |-> "run"]
    /\ shm_names = {FirstName}
    /\ newst = NoCall

\* ------------------------------------------------------------- Queue::push
\* push(value) is called and self.buffer.lock() acquires the mutex.
PushLock(t, limit) ==
    /\ pc[t] = "idle"
    /\ nextVal <= limit
    /\ mutex = NoThread
    /\ mutex' = t
    /\ val' = [val EXCEPT ![t] = nextVal]
    /\ nextVal' = nextVal + 1
    /\ pc' = [pc EXCEPT ![t] = "push_write"]
    /\ UNCHANGED <<rb, in_wait, out_wait, res, returned, nret, writes, takes, aux>>
    /\ UNCHANGED <<svars, xvars>>

\* push handing the ring's Overflow to its caller instead of waiting.
PushWrite_surface(t) ==
    /\ pc[t] = "push_write"
    /\ mutex = t
    /\ LET w == write(rb, val[t]) IN
       IF w.ret = "Ok"
       THEN /\ rb' = w.rb
            /\ writes' = writes + 1
            /\ pc' = [pc EXCEPT ![t] = "push_signal"]
            /\ UNCHANGED err
       ELSE /\ err' = [err EXCEPT ![t] = w.ret]
            /\ pc' = [pc EXCEPT ![t] = "push_unlock"]
            /\ UNCHANGED <<rb, writes>>
    /\ UNCHANGED <<sync, val, res, nextVal, returned, nret, takes, aux>>
    /\ UNCHANGED <<svars, tvars, prog, nvars>>

\* while guard.write(value).is_err() { guard = self.out_cond.wait(guard)? }
PushWrite(t) ==
    /\ pc[t] = "push_write"
    /\ mutex = t
    /\ LET w == write(rb, val[t]) IN
       IF w.ret = "Ok"
       THEN /\ rb' = w.rb
            /\ writes' = writes + 1
            /\ pc' = [pc EXCEPT ![t] = "push_signal"]
            /\ UNCHANGED <<mutex, out_wait, waited>>
       ELSE /\ mutex' = NoThread
            /\ out_wait' = out_wait \cup {t}
            /\ waited' = [waited EXCEPT ![t] = TRUE]
            /\ pc' = [pc EXCEPT ![t] = "push_wait"]
            /\ UNCHANGED <<rb, writes>>
    /\ UNCHANGED <<in_wait, val, res, nextVal, returned, nret, takes, sigOut,
                   lockSlot, lockSeen>>
    /\ UNCHANGED <<svars, xvars>>

\* pthread_cond_wait returns: the waiter was woken and re-acquires the mutex.
PushWake(t) ==
    /\ pc[t] = "push_wait"
    /\ t \notin out_wait
    /\ mutex = NoThread
    /\ mutex' = t
    /\ pc' = [pc EXCEPT ![t] = "push_write"]
    /\ UNCHANGED <<rb, in_wait, out_wait, val, res, hist, aux>>
    /\ UNCHANGED <<svars, xvars>>

\* push without its in_cond.signal().
PushSignal_no_signal(t) ==
    /\ pc[t] = "push_signal"
    /\ pc' = [pc EXCEPT ![t] = "push_unlock"]
    /\ UNCHANGED <<rb, sync, val, res, hist, aux>>
    /\ UNCHANGED <<svars, xvars>>

\* self.in_cond.signal(): the tail expression, evaluated while guard is alive.
PushSignal(t) ==
    /\ pc[t] = "push_signal"
    /\ \E W \in SignalWakes(in_wait) : in_wait' = in_wait \ W
    /\ pc' = [pc EXCEPT ![t] = "push_unlock"]
    /\ UNCHANGED <<rb, mutex, out_wait, val, res, hist, aux>>
    /\ UNCHANGED <<svars, xvars>>

\* guard goes out of scope at the end of push.
PushUnlock(t) ==
    /\ pc[t] = "push_unlock"
    /\ mutex = t
    /\ mutex' = NoThread
    /\ pc' = [pc EXCEPT ![t] = "push_ret"]
    /\ UNCHANGED <<rb, in_wait, out_wait, val, res, hist, aux>>
    /\ UNCHANGED <<svars, xvars>>

\* push returns to its caller, which goes on to position after.
PushReturn(t, after) ==
    /\ pc[t] = "push_ret"
    /\ pc' = [pc EXCEPT ![t] = "idle"]
    /\ val' = [val EXCEPT ![t] = 0]
    /\ waited' = [waited EXCEPT ![t] = FALSE]
    /\ err' = [err EXCEPT ![t] = "Ok"]
    /\ prog' = [prog EXCEPT ![t] = after]
    /\ UNCHANGED <<rb, sync, res, hist, sigOut, lockSlot, lockSeen>>
    /\ UNCHANGED <<svars, tvars, nvars>>

\* A pop, try_pop or timed_pop hands res[t] to its caller; a call that
\* returns Err hands over nothing, a value it took is dropped.
Deliver(t) ==
    /\ IF res[t] # None /\ err[t] = "Ok"
       THEN /\ returned' = IF res[t][1] \in DOMAIN returned
                            THEN [returned EXCEPT ![res[t][1]] = @ + 1]
                            ELSE returned @@ (res[t][1] :> 1)
            /\ nret' = nret + 1
       ELSE UNCHANGED <<returned, nret>>
    /\ res' = [res EXCEPT ![t] = None]
    /\ err' = [err EXCEPT ![t] = "Ok"]
    /\ pc' = [pc EXCEPT ![t] = "idle"]

\* -------------------------------------------------------------- Queue::pop
\* pop() is called and self.buffer.lock() acquires the mutex.
PopLock(t) ==
    /\ pc[t] = "idle"
    /\ mutex = NoThread
    /\ mutex' = t
    /\ pc' = [pc EXCEPT ![t] = "pop_read"]
    /\ UNCHANGED <<rb, in_wait, out_wait, val, res, hist, aux>>
    /\ UNCHANGED <<svars, xvars>>

\* loop { if let Some(t) = guard.try_read() { return Ok(t) }
\*        else { guard = self.in_cond.wait(guard)? } }
PopRead(t) ==
    /\ pc[t] = "pop_read"
    /\ mutex = t
    /\ LET r == try_read(rb) IN
       /\ rb' = r.rb
       /\ IF r.ret # None
          THEN /\ res' = [res EXCEPT ![t] = r.ret]
               /\ takes' = takes + 1
               /\ pc' = [pc EXCEPT ![t] = "pop_unlock"]
               /\ UNCHANGED <<mutex, in_wait>>
          ELSE /\ mutex' = NoThread
               /\ in_wait' = in_wait \cup {t}
               /\ pc' = [pc EXCEPT ![t] = "pop_wait"]
               /\ UNCHANGED <<res, takes>>
    /\ UNCHANGED <<out_wait, val, nextVal, returned, nret, writes, aux>>
    /\ UNCHANGED <<svars, xvars>>

PopWake(t) ==
    /\ pc[t] = "pop_wait"
    /\ t \notin in_wait
    /\ mutex = NoThread
    /\ mutex' = t
    /\ pc' = [pc EXCEPT ![t] = "pop_read"]
    /\ UNCHANGED <<rb, in_wait, out_wait, val, res, hist, aux>>
    /\ UNCHANGED <<svars, xvars>>

\* the closure poll_value returns: its guard is dropped.
PopUnlock(t) ==
    /\ pc[t] = "pop_unlock"
    /\ mutex = t
    /\ mutex' = NoThread
    /\ pc' = [pc EXCEPT ![t] = "pop_signal"]
    /\ UNCHANGED <<rb, in_wait, out_wait, val, res, hist, aux>>
    /\ UNCHANGED <<svars, xvars>>

\* pop without its out_cond.signal().
PopSignal_no_signal(t) ==
    /\ pc[t] = "pop_signal"
    /\ sigOut' = [sigOut EXCEPT ![t] = TRUE]
    /\ pc' = [pc EXCEPT ![t] = "pop_ret"]
    /\ UNCHANGED <<rb, sync, val, res, hist, waited, lockSlot, lockSeen>>
    /\ UNCHANGED <<svars, xvars>>

\* self.out_cond.signal()?
PopSignal(t) ==
    /\ pc[t] = "pop_signal"
    /\ \E W \in SignalWakes(out_wait) : out_wait' = out_wait \ W
    /\ sigOut' = [sigOut EXCEPT ![t] = TRUE]
    /\ pc' = [pc EXCEPT ![t] = "pop_ret"]
    /\ UNCHANGED <<rb, mutex, in_wait, val, res, hist, waited, lockSlot, lockSeen>>
    /\ UNCHANGED <<svars, xvars>>

\* poll_result  -- pop returns it to its caller.
PopReturn(t) ==
    /\ pc[t] = "pop_ret"
    /\ Deliver(t)
    /\ sigOut' = [sigOut EXCEPT ![t] = FALSE]
    /\ UNCHANGED <<rb, sync, val, nextVal, writes, takes, waited, lockSlot, lockSeen>>
    /\ UNCHANGED <<svars, tvars, prog, nvars>>

\* ---------------------------------------------------------- Queue::try_pop
\* try_pop() is called and self.buffer.lock()? acquires the mutex.
TryPopLock(t) ==
    /\ pc[t] = "idle"
    /\ mutex = NoThread
    /\ mutex' = t
    /\ lockSlot' = [lockSlot EXCEPT ![t] = rb.read_idx]
    /\ lockSeen' = [lockSeen EXCEPT ![t] = rb.buffer[rb.read_idx]]
    /\ pc' = [pc EXCEPT ![t] = "try_read"]
    /\ UNCHANGED <<rb, in_wait, out_wait, val, res, hist, waited, sigOut>>
    /\ UNCHANGED <<svars, xvars>>

\* .try_read()
TryPopRead(t) ==
    /\ pc[t] = "try_read"
    /\ mutex = t
    /\ LET r == try_read(rb) IN
       /\ rb' = r.rb
       /\ res' = [res EXCEPT ![t] = r.ret]
       /\ takes' = IF r.ret # None THEN takes + 1 ELSE takes
    /\ pc' = [pc EXCEPT ![t] = "try_unlock"]
    /\ UNCHANGED <<sync, val, nextVal, returned, nret, writes, aux>>
    /\ UNCHANGED <<svars, xvars>>

\* the temporary guard is dropped; try_pop signals no condition variable.
TryPopUnlock(t) ==
    /\ pc[t] = "try_unlock"
    /\ mutex = t
    /\ mutex' = NoThread
    /\ pc' = [pc EXCEPT ![t] = "try_ret"]
    /\ UNCHANGED <<rb, in_wait, out_wait, val, res, hist, aux>>
    /\ UNCHANGED <<svars, xvars>>

\* try_pop returns Ok(res[t]) to its caller.
TryPopReturn(t) ==
    /\ pc[t] = "try_ret"
    /\ Deliver(t)
    /\ lockSlot' = [lockSlot EXCEPT ![t] = 0]
    /\ lockSeen' = [lockSeen EXCEPT ![t] = None]
    /\ UNCHANGED <<rb, sync, val, nextVal, writes, takes, waited, sigOut>>
    /\ UNCHANGED <<svars, tvars, prog, nvars>>

\* -------------------------------------------------------- Queue::timed_pop
\* timed_pop(time) is called with a Duration out of D and
\* self.buffer.lock()? acquires the mutex.
TimedPopLock(t, D) ==
    /\ pc[t] = "idle"
    /\ mutex = NoThread
    /\ mutex' = t
    /\ \E d \in D : time' = [time EXCEPT ![t] = d]
    /\ start' = [start EXCEPT ![t] = now]
    /\ pc' = [pc EXCEPT ![t] = "tp_read"]
    /\ UNCHANGED <<rb, in_wait, out_wait, val, res, hist, aux>>
    /\ UNCHANGED <<svars, now, abstime, cvars, nvars>>

\* match guard.try_read() { Some(t) => Ok(Some(t)),
\*                          None => match self.in_cond.timed_wait(guard, time)
\* timed_wait: let abstime = SystemTime::now() + duration; then
\* pthread_cond_timedwait releases the mutex and blocks.
TimedPopRead(t) ==
    /\ pc[t] = "tp_read"
    /\ mutex = t
    /\ LET r == try_read(rb) IN
       /\ rb' = r.rb
       /\ IF r.ret # None
          THEN /\ res' = [res EXCEPT ![t] = r.ret]
               /\ takes' = takes + 1
               /\ pc' = [pc EXCEPT ![t] = "tp_unlock"]
               /\ UNCHANGED <<mutex, in_wait, abstime>>
          ELSE /\ mutex' = NoThread
               /\ in_wait' = in_wait \cup {t}
               /\ abstime' = [abstime EXCEPT ![t] = now + time[t]]
               /\ pc' = [pc EXCEPT ![t] = "tp_wait"]
               /\ UNCHANGED <<res, takes>>
    /\ UNCHANGED <<out_wait, val, nextVal, returned, nret, writes, aux>>
    /\ UNCHANGED <<svars, now, time, start, cvars, nvars>>

\* pthread_cond_timedwait: the clock has reached abstime and the thread is
\* still waiting.
TimedPopTimeout(t) ==
    /\ pc[t] = "tp_wait"
    /\ t \in in_wait
    /\ now >= abstime[t]
    /\ in_wait' = in_wait \ {t}
    /\ pc' = [pc EXCEPT ![t] = "tp_timeout"]
    /\ UNCHANGED <<rb, mutex, out_wait, val, res, hist, aux>>
    /\ UNCHANGED <<svars, xvars>>

\* ... it re-acquires the mutex and returns ETIMEDOUT:
\* Err(Error::Sys(Errno::ETIMEDOUT)) => Ok(None)
TimedPopTimedOut(t) ==
    /\ pc[t] = "tp_timeout"
    /\ mutex = NoThread
    /\ mutex' = t
    /\ res' = [res EXCEPT ![t] = None]
    /\ pc' = [pc EXCEPT ![t] = "tp_unlock"]
    /\ UNCHANGED <<rb, in_wait, out_wait, val, hist, aux>>
    /\ UNCHANGED <<svars, xvars>>

\* pthread_cond_timedwait returns 0: woken, mutex re-acquired.
TimedPopWake(t) ==
    /\ pc[t] = "tp_wait"
    /\ t \notin in_wait
    /\ mutex = NoThread
    /\ mutex' = t
    /\ pc' = [pc EXCEPT ![t] = "tp_read2"]
    /\ UNCHANGED <<rb, in_wait, out_wait, val, res, hist, aux>>
    /\ UNCHANGED <<svars, xvars>>

\* A timed_pop that waits again when the re-check finds the ring empty.
TimedPopReread_loop(t) ==
    /\ pc[t] = "tp_read2"
    /\ mutex = t
    /\ LET r == try_read(rb) IN
       /\ rb' = r.rb
       /\ IF r.ret # None
          THEN /\ res' = [res EXCEPT ![t] = r.ret]
               /\ takes' = takes + 1
               /\ pc' = [pc EXCEPT ![t] = "tp_unlock"]
               /\ UNCHANGED <<mutex, in_wait>>
          ELSE /\ mutex' = NoThread
               /\ in_wait' = in_wait \cup {t}
               /\ pc' = [pc EXCEPT ![t] = "tp_wait"]
               /\ UNCHANGED <<res, takes>>
    /\ UNCHANGED <<out_wait, val, nextVal, returned, nret, writes, aux>>
    /\ UNCHANGED <<svars, xvars>>

\* Ok(mut guard) => Ok(guard.try_read())
TimedPopReread(t) ==
    /\ pc[t] = "tp_read2"
    /\ mutex = t
    /\ LET r == try_read(rb) IN
       /\ rb' = r.rb
       /\ res' = [res EXCEPT ![t] = r.ret]
       /\ takes' = IF r.ret # None THEN takes + 1 ELSE takes
    /\ pc' = [pc EXCEPT ![t] = "tp_unlock"]
    /\ UNCHANGED <<sync, val, nextVal, returned, nret, writes, aux>>
    /\ UNCHANGED <<svars, xvars>>

\* the guard is dropped: by the closure, or inside timed_wait on its Err path.
TimedPopUnlock(t) ==
    /\ pc[t] = "tp_unlock"
    /\ mutex = t
    /\ mutex' = NoThread
    /\ pc' = [pc EXCEPT ![t] = "tp_signal"]
    /\ UNCHANGED <<rb, in_wait, out_wait, val, res, hist, aux>>
    /\ UNCHANGED <<svars, xvars>>

\* self.out_cond.signal()?  -- whether or not a value was taken.
TimedPopSignal(t) ==
    /\ pc[t] = "tp_signal"
    /\ \E W \in SignalWakes(out_wait) : out_wait' = out_wait \ W
    /\ sigOut' = [sigOut EXCEPT ![t] = TRUE]
    /\ pc' = [pc EXCEPT ![t] = "tp_ret"]
    /\ UNCHANGED <<rb, mutex, in_wait, val, res, hist, waited, lockSlot, lockSeen>>
    /\ UNCHANGED <<svars, xvars>>

\* poll_result  -- timed_pop returns it to its caller, which goes on to
\* position onAbsent unless it got Ok(Some(msg)).
TimedPopReturn(t, onAbsent) ==
    /\ pc[t] = "tp_ret"
    /\ Deliver(t)
    /\ sigOut' = [sigOut EXCEPT ![t] = FALSE]
    /\ time' = [time EXCEPT ![t] = 0]
    /\ start' = [start EXCEPT ![t] = 0]
    /\ abstime' = [abstime EXCEPT ![t] = 0]
    /\ prog' = [prog EXCEPT ![t] = IF res[t] = None \/ err[t] # "Ok"
                                    THEN onAbsent ELSE @]
    /\ UNCHANGED <<rb, sync, val, nextVal, writes, takes, waited, lockSlot, lockSeen>>
    /\ UNCHANGED <<svars, now, nvars>>

\* ------------------------------------------------------ failing primitives
\* A pthread call returns a non-zero status: the wrapper returns
\* Err(Error::Sys(errno)), recorded in err under the name of the call.  A
\* failing lock leaves the mutex alone; a failing wait or timed_wait returns
\* with the mutex still held, and the guard it was given is dropped.
SysErrors == {"lock", "wait", "timed_wait", "signal"}

\* let mut guard = self.buffer.lock()?;   -- push returns the error
PushLockFail(t, limit) ==
    /\ pc[t] = "idle"
    /\ nextVal <= limit
    /\ err' = [err EXCEPT ![t] = "lock"]
    /\ pc' = [pc EXCEPT ![t] = "push_ret"]
    /\ UNCHANGED <<rb, sync, val, res, hist, aux>>
    /\ UNCHANGED <<svars, tvars, prog, nvars>>

\* guard = self.out_cond.wait(guard)?;   -- on a full ring, wait fails
PushWaitFail(t) ==
    /\ pc[t] = "push_write"
    /\ mutex = t
    /\ write(rb, val[t]).ret = "Overflow"
    /\ err' = [err EXCEPT ![t] = "wait"]
    /\ pc' = [pc EXCEPT ![t] = "push_unlock"]
    /\ UNCHANGED <<rb, sync, val, res, hist, aux>>
    /\ UNCHANGED <<svars, tvars, prog, nvars>>

\* self.in_cond.signal() returns Err: it is push's result.
PushSignalFail(t) ==
    /\ pc[t] = "push_signal"
    /\ err' = [err EXCEPT ![t] = "signal"]
    /\ pc' = [pc EXCEPT ![t] = "push_unlock"]
    /\ UNCHANGED <<rb, sync, val, res, hist, aux>>
    /\ UNCHANGED <<svars, tvars, prog, nvars>>

\* poll_value: self.buffer.lock()? fails; pop goes on to out_cond.signal().
PopLockFail(t) ==
    /\ pc[t] = "idle"
    /\ err' = [err EXCEPT ![t] = "lock"]
    /\ pc' = [pc EXCEPT ![t] = "pop_signal"]
    /\ UNCHANGED <<rb, sync, val, res, hist, aux>>
    /\ UNCHANGED <<svars, tvars, prog, nvars>>

\* a failing wait that keeps the guard instead of dropping it.
PopWaitFail_leak(t) ==
    /\ pc[t] = "pop_read"
    /\ mutex = t
    /\ try_read(rb).ret = None
    /\ err' = [err EXCEPT ![t] = "wait"]
    /\ pc' = [pc EXCEPT ![t] = "pop_signal"]
    /\ UNCHANGED <<rb, sync, val, res, hist, aux>>
    /\ UNCHANGED <<svars, tvars, prog, nvars>>

\* guard = self.in_cond.wait(guard)?;   -- on an empty ring, wait fails
PopWaitFail(t) ==
    /\ pc[t] = "pop_read"
    /\ mutex = t
    /\ try_read(rb).ret = None
    /\ err' = [err EXCEPT ![t] = "wait"]
    /\ pc' = [pc EXCEPT ![t] = "pop_unlock"]
    /\ UNCHANGED <<rb, sync, val, res, hist, aux>>
    /\ UNCHANGED <<svars, tvars, prog, nvars>>

\* self.out_cond.signal()? fails: pop returns that error, poll_result is
\* dropped.
PopSignalFail(t) ==
    /\ pc[t] = "pop_signal"
    /\ err' = [err EXCEPT ![t] = "signal"]
    /\ pc' = [pc EXCEPT ![t] = "pop_ret"]
    /\ UNCHANGED <<rb, sync, val, res, hist, aux>>
    /\ UNCHANGED <<svars, tvars, prog, nvars>>

\* Ok(self.buffer.lock()?.try_read())   -- lock fails
TryPopLockFail(t) ==
    /\ pc[t] = "idle"
    /\ err' = [err EXCEPT ![t] = "lock"]
    /\ pc' = [pc EXCEPT ![t] = "try_ret"]
    /\ UNCHANGED <<rb, sync, val, res, hist, aux>>
    /\ UNCHANGED <<svars, tvars, prog, nvars>>

\* poll_value: self.buffer.lock()? fails; timed_pop goes on to
\* out_cond.signal().
TimedPopLockFail(t) ==
    /\ pc[t] = "idle"
    /\ err' = [err EXCEPT ![t] = "lock"]
    /\ pc' = [pc EXCEPT ![t] = "tp_signal"]
    /\ UNCHANGED <<rb, sync, val, res, hist, aux>>
    /\ UNCHANGED <<svars, tvars, prog, nvars>>

\* timed_wait fails with an error other than ETIMEDOUT: Err(err) => Err(err)
TimedPopWaitFail(t) ==
    /\ pc[t] = "tp_read"
    /\ mutex = t
    /\ try_read(rb).ret = None
    /\ err' = [err EXCEPT ![t] = "timed_wait"]
    /\ pc' = [pc EXCEPT ![t] = "tp_unlock"]
    /\ UNCHANGED <<rb, sync, val, res, hist, aux>>
    /\ UNCHANGED <<svars, tvars, prog, nvars>>

\* self.out_cond.signal()? fails: timed_pop returns that error.
TimedPopSignalFail(t) ==
    /\ pc[t] = "tp_signal"
    /\ err' = [err EXCEPT ![t] = "signal"]
    /\ pc' = [pc EXCEPT ![t] = "tp_ret"]
    /\ UNCHANGED <<rb, sync, val, res, hist, aux>>
    /\ UNCHANGED <<svars, tvars, prog, nvars>>

\* The wall clock advances.
Tick ==
    /\ now < MaxTime
    /\ now' = now + 1
    /\ UNCHANGED <<qvars, svars, time, start, abstime, cvars, nvars>>

\* ------------------------------------------------------- spurious wakeups
\* pthread_cond_wait / pthread_cond_timedwait may return without a signal.
SpuriousWake(t) ==
    /\ t \in in_wait \cup out_wait
    /\ in_wait' = in_wait \ {t}
    /\ out_wait' = out_wait \ {t}
    /\ UNCHANGED <<rb, mutex, pc, val, res, hist, aux>>
    /\ UNCHANGED <<svars, xvars>>

\* ===================================================================== Shm
\* base and snap record, while a clone is alive, the ref_ctr and the set of
\* live handles that clone() found.
NoHandle == [st |-> "free", owner |-> "none", closure |-> FALSE,
             prev |-> 0, ran |-> FALSE, base |-> 0, snap |-> {}]

\* Shm::new: ptr::write(raw_ptr, ShmInner::new(obj)) -- ref_ctr starts at 1.
SInit ==
    /\ ref_ctr = 1
    /\ handles = [h \in HandleIds |->
                    IF h = 1 THEN [NoHandle EXCEPT !.st = "live", !.owner = "main"]
                    ELSE NoHandle]
    /\ cst = [c \in Children |-> "unborn"]
    /\ borrow = [c \in Children |-> FALSE]
    /\ mapped = [p \in Procs |-> p = "parent"]
    /\ faulted = {}
    /\ destroyed = 0
    /\ zeroed = 0

\* a clone() that does not count the new handle.
increment_ref_ctr_skip(c) == c

\* ShmInner::increment_ref_ctr: fetch_add(1, SeqCst)
increment_ref_ctr(c) == (c + 1) % UsizeModulus
\* ShmInner::decrement_ref_ctr: fetch_sub(1, SeqCst); the old value is dropped.
decrement_ref_ctr(c) == (c + UsizeModulus - 1) % UsizeModulus

FreeIds == {h \in HandleIds : handles[h].st = "free"}
NewId == CHOOSE h \in FreeIds : \A g \in FreeIds : h <= g
Running(a) ==
    /\ proc(a) \notin faulted
    /\ a \in Children => cst[a] = "running"
\* a is between the fetch_sub and the load of a drop.
Busy(a) == \E h \in HandleIds : handles[h].owner = a /\ handles[h].st = "dec"
\* a is returning from spawn: the closure it passed is being dropped.
InSpawnReturn(a) ==
    \E h \in HandleIds : /\ handles[h].owner = a
                         /\ handles[h].closure
                         /\ handles[h].st \in {"live", "dec"}
Owns(a, h) ==
    /\ handles[h].owner = a
    /\ handles[h].st = "live"
    /\ ~handles[h].closure

\* Touching the region after this process unmapped it is undefined: the
\* access faults, or it lands on whatever the address range holds by then.
UnmappedOutcomes == {"segv", "stale"}

Live == {h \in HandleIds : handles[h].st = "live"}

\* A new Shm value for actor o, pointing at the same inner_ptr.
Cloned(o, counted) ==
    /\ handles' = [handles EXCEPT ![NewId] =
                      [NoHandle EXCEPT !.st = "live", !.owner = o,
                                       !.base = ref_ctr, !.snap = Live]]
    /\ ref_ctr' = IF counted THEN increment_ref_ctr(ref_ctr) ELSE ref_ctr
    /\ UNCHANGED <<faulted, zeroed>>

Fault(p) ==
    /\ faulted' = faulted \cup {p}
    /\ UNCHANGED <<ref_ctr, handles, zeroed>>

\* impl Clone for Shm: a clones its handle h; the clone goes to o, a itself
\* or a thread of the same process the clone is moved into.
ShmClone(a, h, o) ==
    /\ Running(a) /\ ~Busy(a) /\ ~InSpawnReturn(a)
    /\ Owns(a, h)
    /\ proc(o) = proc(a)
    /\ FreeIds # {}
    /\ IF mapped[proc(a)]
       THEN Cloned(o, TRUE)
       ELSE \E u \in UnmappedOutcomes :
               IF u = "segv" THEN Fault(proc(a)) ELSE Cloned(o, FALSE)
    /\ UNCHANGED <<cst, borrow, mapped, destroyed>>
    /\ UNCHANGED <<qvars, xvars>>

\* The same in a child whose closure borrowed a handle of the parent
\* (main.rs: process::spawn(|| { producer(queue.clone()); })).
ShmCloneBorrowed(c) ==
    /\ Running(c) /\ ~Busy(c)
    /\ borrow[c]
    /\ FreeIds # {}
    /\ IF mapped[c]
       THEN Cloned(c, TRUE)
       ELSE \E u \in UnmappedOutcomes :
               IF u = "segv" THEN Fault(c) ELSE Cloned(c, FALSE)
    /\ UNCHANGED <<cst, borrow, mapped, destroyed>>
    /\ UNCHANGED <<qvars, xvars>>

\* impl Drop for Shm, first half: inner.decrement_ref_ctr()
ShmDropDec(a, h) ==
    /\ Running(a) /\ ~Busy(a)
    /\ handles[h].owner = a
    /\ handles[h].st = "live"
    /\ InSpawnReturn(a) => handles[h].closure
    /\ IF mapped[proc(a)]
       THEN /\ ref_ctr' = decrement_ref_ctr(ref_ctr)
            /\ zeroed' = IF decrement_ref_ctr(ref_ctr) = 0 THEN zeroed + 1 ELSE zeroed
            /\ handles' = [handles EXCEPT ![h].st = "dec", ![h].prev = ref_ctr]
            /\ UNCHANGED faulted
       ELSE \E u \in UnmappedOutcomes :
               IF u = "segv" THEN Fault(proc(a))
               ELSE /\ handles' = [handles EXCEPT ![h].st = "dec"]
                    /\ UNCHANGED <<ref_ctr, zeroed, faulted>>
    /\ UNCHANGED <<cst, borrow, mapped, destroyed>>
    /\ UNCHANGED <<qvars, xvars>>

\* The payload destructor and the munmap, run by the drop of handle h.
Teardown(a, h) ==
    /\ destroyed' = destroyed + 1
    /\ mapped' = [mapped EXCEPT ![proc(a)] = FALSE]
    /\ handles' = [handles EXCEPT ![h].st = "dead", ![h].ran = TRUE,
                                  ![h].base = 0, ![h].snap = {}]

NoTeardown(h) ==
    /\ handles' = [handles EXCEPT ![h].st = "dead",
                                  ![h].base = 0, ![h].snap = {}]
    /\ UNCHANGED <<destroyed, mapped>>

\* impl Drop for Shm, second half:
\* if inner.ref_count() == 0 { ptr::read(self.inner_ptr); munmap(..).unwrap() }
ShmDropCheck(a, h) ==
    /\ Running(a)
    /\ handles[h].owner = a
    /\ handles[h].st = "dec"
    /\ IF mapped[proc(a)]
       THEN /\ IF ref_ctr = 0 THEN Teardown(a, h) ELSE NoTeardown(h)
            /\ UNCHANGED faulted
       ELSE \E u \in UnmappedOutcomes :
               IF u = "segv"
               THEN /\ faulted' = faulted \cup {proc(a)}
                    /\ UNCHANGED <<handles, destroyed, mapped>>
               ELSE /\ \/ Teardown(a, h)
                       \/ NoTeardown(h)
                    /\ UNCHANGED faulted
    /\ UNCHANGED <<ref_ctr, cst, borrow, zeroed>>
    /\ UNCHANGED <<qvars, xvars>>

\* process::spawn(child_main), called by the parent's main thread with a
\* closure that owns the handles K (move) or borrows the parent's (K = {}).
\* fork() copies the closure with the rest of the address space: the child
\* runs its copy and drops it; the parent's branch returns Ok(Process) and
\* drops its own copy, child_main, on the way out.
Spawn(c, K) ==
    /\ Running("main") /\ ~Busy("main") /\ ~InSpawnReturn("main")
    /\ cst[c] = "unborn"
    /\ K \subseteq {h \in HandleIds : Owns("main", h)}
    /\ Cardinality(K) <= 1
    /\ Cardinality(FreeIds) >= Cardinality(K)
    /\ cst' = [cst EXCEPT ![c] = "running"]
    /\ mapped' = [mapped EXCEPT ![c] = mapped["parent"]]
    /\ borrow' = [borrow EXCEPT ![c] =
                     K = {} /\ \E h \in HandleIds : Owns("main", h)]
    /\ handles' = [h \in HandleIds |->
                     IF h \in K THEN [handles[h] EXCEPT !.closure = TRUE]
                     ELSE IF K # {} /\ h = NewId
                          THEN [NoHandle EXCEPT !.st = "live", !.owner = c]
                          ELSE handles[h]]
    /\ UNCHANGED <<ref_ctr, faulted, destroyed, zeroed>>
    /\ UNCHANGED <<qvars, xvars>>

\* child_main() has returned, its captures and locals dropped: exit(0).
\* The handles of the parent's stack that fork copied are never dropped.
ChildExit(c) ==
    /\ Running(c)
    /\ \A h \in HandleIds :
          handles[h].owner = c => handles[h].st = "dead"
    /\ cst' = [cst EXCEPT ![c] = "exited"]
    /\ mapped' = [mapped EXCEPT ![c] = FALSE]
    /\ UNCHANGED <<ref_ctr, handles, borrow, faulted, destroyed, zeroed>>
    /\ UNCHANGED <<qvars, xvars>>

\* ---------------------------------------------------------------- Shm::new
\* let shm_path = thread_rng().gen_ascii_chars().take(10).collect::<String>()
NewPath(n) ==
    /\ newst.pc \in {"idle", "done", "failed"}
    /\ n \in Names
    /\ newst' = [pc |-> "named", shm_path |-> n, opens |-> 0]
    /\ UNCHANGED <<qvars, svars, tvars, cvars, shm_names>>

\* Self::open_shm(&shm_path)?: shm_open with O_CREAT | O_EXCL fails if the
\* name exists and new returns the error; else the name enters the
\* namespace and ftruncate sizes the object.
NewOpen ==
    /\ newst.pc = "named"
    /\ IF newst.shm_path \in shm_names
       THEN /\ newst' = [newst EXCEPT !.pc = "failed", !.opens = @ + 1]
            /\ UNCHANGED shm_names
       ELSE /\ shm_names' = shm_names \cup {newst.shm_path}
            /\ newst' = [newst EXCEPT !.pc = "opened", !.opens = @ + 1]
    /\ UNCHANGED <<qvars, svars, tvars, cvars>>

\* Self::mmap_shm(shm_fd)?
NewMmap ==
    /\ newst.pc = "opened"
    /\ newst' = [newst EXCEPT !.pc = "mapped"]
    /\ UNCHANGED <<qvars, svars, tvars, cvars, shm_names>>

\* close(shm_fd)?
NewClose ==
    /\ newst.pc = "mapped"
    /\ newst' = [newst EXCEPT !.pc = "closed"]
    /\ UNCHANGED <<qvars, svars, tvars, cvars, shm_names>>

\* ptr::write(raw_ptr, ShmInner::new(obj)); Ok(Shm { inner_ptr: raw_ptr })
\* Nothing between shm_open and this return removes the name.
NewReturn ==
    /\ newst.pc = "closed"
    /\ newst' = [newst EXCEPT !.pc = "done"]
    /\ UNCHANGED <<qvars, svars, tvars, cvars, shm_names>>

ShmNew ==
    \/ \E n \in Names : NewPath(n)
    \/ NewOpen \/ NewMmap \/ NewClose \/ NewReturn

\* --------------------------------------------------------- specifications
Push(t, limit) ==
    \/ PushLock(t, limit) \/ PushWrite(t) \/ PushWake(t)
    \/ PushSignal(t) \/ PushUnlock(t) \/ PushReturn(t, "run")

Pop(t) ==
    \/ PopLock(t) \/ PopRead(t) \/ PopWake(t)
    \/ PopUnlock(t) \/ PopSignal(t) \/ PopReturn(t)

TryPop(t) ==
    \/ TryPopLock(t) \/ TryPopRead(t) \/ TryPopUnlock(t) \/ TryPopReturn(t)

TimedPop(t, D) ==
    \/ TimedPopLock(t, D) \/ TimedPopRead(t) \/ TimedPopTimeout(t)
    \/ TimedPopTimedOut(t) \/ TimedPopWake(t) \/ TimedPopReread(t)
    \/ TimedPopUnlock(t) \/ TimedPopSignal(t) \/ TimedPopReturn(t, "run")

Init == QInit /\ SInit /\ XInit

\* Any number of producers and consumers on one Queue.  Every timed_pop is
\* given a zero Duration: its deadline is the moment of the call, so the
\* timeout can strike at any moment of its wait.
Next ==
    \/ \E t \in Producers : Push(t, MaxPush)
    \/ \E t \in Consumers : Pop(t)
    \/ \E t \in Consumers : TryPop(t)
    \/ \E t \in Consumers : TimedPop(t, {0})
    \/ \E t \in Threads : SpuriousWake(t)

Spec == Init /\ [][Next]_vars

\* Threads of the parent and child processes cloning and dropping handles
\* of one region, the parent spawning children.
NextShm ==
    \/ \E a \in Actors, h \in HandleIds, o \in Actors : ShmClone(a, h, o)
    \/ \E c \in Children : ShmCloneBorrowed(c)
    \/ \E a \in Actors, h \in HandleIds : ShmDropDec(a, h)
    \/ \E a \in Actors, h \in HandleIds : ShmDropCheck(a, h)
    \/ \E c \in Children, K \in SUBSET HandleIds : Spawn(c, K)
    \/ \E c \in Children : ChildExit(c)

SpecShm == Init /\ [][NextShm]_vars

\* The pre-fork discipline (tests mpsc_ipc, ipc_queue): the parent's main
\* thread clones, moves one handle into each child's closure and keeps
\* another; nobody clones after that.
ForkSpawn(c, h) ==
    /\ \E g \in HandleIds \ {h} : Owns("main", g)
    /\ Spawn(c, {h})

NextFork ==
    \/ \E h \in HandleIds : cst = [c \in Children |-> "unborn"] /\ ShmClone("main", h, "main")
    \/ \E c \in Children, h \in HandleIds : ForkSpawn(c, h)
    \/ \E a \in {"main"} \cup Children, h \in HandleIds : ShmDropDec(a, h)
    \/ \E a \in {"main"} \cup Children, h \in HandleIds : ShmDropCheck(a, h)
    \/ \E c \in Children : ChildExit(c)

SpecFork == Init /\ [][NextFork]_vars

\* One producer and one consumer on the same Queue (tests mpsc, mpsc_ipc).
NextSpsc ==
    \/ Push("p1", MaxPushSpsc)
    \/ Pop("c1")
    \/ \E t \in {"p1", "c1"} : SpuriousWake(t)

SpecSpsc == Init /\ [][NextSpsc]_vars

\* One thread alone, calling push and try_pop (test queue::try_pop).
NextSeq ==
    \/ Push("c1", MaxPush)
    \/ TryPop("c1")
    \/ SpuriousWake("c1")

SpecSeq == Init /\ [][NextSeq]_vars

\* Producers fill the ring and push on; one consumer pops MaxPops times
\* (test ring_buffer::overflow_escape, scenario "fill, overflow-block, drain").
EscapePop(t) ==
    /\ pc[t] = "idle" => takes < MaxPops
    /\ Pop(t)

NextEscape ==
    \/ \E t \in Producers : Push(t, RING_BUFFER_SIZE + ExtraPush)
    \/ EscapePop("c1")
    \/ \E t \in Producers \cup {"c1"} : SpuriousWake(t)

SpecEscape == Init /\ [][NextEscape]_vars

\* Every thread that can take a step eventually takes one; a thread that
\* contends for the mutex eventually gets it.  Spurious wakeups are not owed.
FairEscape ==
    /\ SpecEscape
    /\ \A t \in Producers : SF_vars(Push(t, RING_BUFFER_SIZE + ExtraPush))
    /\ SF_vars(EscapePop("c1"))

\* Threads of one process cloning and dropping handles of a region whose
\* payload, a Queue, is in use by another thread (test queue::mpsc).  That
\* thread pushes fewer values than the ring has slots, so its push never
\* finds the ring full and never waits.
NextCloneDrop ==
    \/ \E a \in ParentThreads, h \in HandleIds, o \in ParentThreads :
          ShmClone(a, h, o)
    \/ \E a \in ParentThreads, h \in HandleIds : ShmDropDec(a, h)
    \/ \E a \in ParentThreads, h \in HandleIds : ShmDropCheck(a, h)
    \/ PushLock("c1", MaxPushShm) \/ PushWrite("c1") \/ PushSignal("c1")
    \/ PushUnlock("c1") \/ PushReturn("c1", "run")
    \/ TryPop("c1")

SpecCloneDrop == Init /\ [][NextCloneDrop]_vars

\* One thread calling timed_pop, again and again, on a queue nobody pushes
\* to, while the clock runs (scenario "timed pop timeout").
NextTimed ==
    \/ TimedPop("c1", 1..MaxDuration)
    \/ SpuriousWake("c1")
    \/ Tick

SpecTimed == Init /\ [][NextTimed]_vars

\* One producer pushing a few values while one thread calls timed_pop, again
\* and again, against the running clock.
NextTimedPush ==
    \/ PushLock("p1", MaxPushTimed) \/ PushWrite("p1") \/ PushSignal("p1")
    \/ PushUnlock("p1") \/ PushReturn("p1", "run")
    \/ TimedPop("c1", 1..MaxDuration)
    \/ SpuriousWake("c1")
    \/ Tick

SpecTimedPush == Init /\ [][NextTimedPush]_vars

\* main.rs with one child process per thread of Producers, all spawned:
\* each child runs producer(), one push of its (pid, random) pair, and is
\* done; the parent runs
\*   while let Ok(Some(msg)) = queue.timed_pop(Duration::from_millis(10))
\* and is done when a timed_pop returns anything else.  So few pushes never
\* fill the ring: no push waits.
Producer(t) ==
    /\ prog[t] = "run"
    /\ \/ PushLock(t, Cardinality(Producers)) \/ PushWrite(t) \/ PushSignal(t)
       \/ PushUnlock(t) \/ PushReturn(t, "done")

MainLoop(t) ==
    /\ prog[t] = "run"
    /\ \/ TimedPopLock(t, {MaxDuration}) \/ TimedPopRead(t)
       \/ TimedPopTimeout(t) \/ TimedPopTimedOut(t) \/ TimedPopWake(t)
       \/ TimedPopReread(t) \/ TimedPopUnlock(t) \/ TimedPopSignal(t)
       \/ TimedPopReturn(t, "done")

NextTen ==
    \/ \E t \in Producers : Producer(t)
    \/ MainLoop("c1")
    \/ Tick

SpecTen == Init /\ [][NextTen]_vars

\* One producer and one consumer whose mutex and condition variables may
\* fail at any call.
PushOrFail(t, limit) ==
    \/ Push(t, limit)
    \/ PushLockFail(t, limit) \/ PushWaitFail(t) \/ PushSignalFail(t)

PopOrFail(t) ==
    \/ Pop(t) \/ PopLockFail(t) \/ PopWaitFail(t) \/ PopSignalFail(t)

TryPopOrFail(t) ==
    \/ TryPop(t) \/ TryPopLockFail(t)

TimedPopOrFail(t, D) ==
    \/ TimedPop(t, D)
    \/ TimedPopLockFail(t) \/ TimedPopWaitFail(t) \/ TimedPopSignalFail(t)

NextErr ==
    \/ PushOrFail("p1", MaxPush)
    \/ PopOrFail("c1")
    \/ TryPopOrFail("c1")
    \/ TimedPopOrFail("c1", {0})
    \/ \E t \in {"p1", "c1"} : SpuriousWake(t)

SpecErr == Init /\ [][NextErr]_vars

\* Producers calling push and consumers calling pop, under fair scheduling:
\* a thread that can take a step, or that can again and again get the
\* mutex, eventually does.  Spurious wakeups may happen; none is owed.
\* The consumers call pop until MaxPopsMpmc items have been taken.
MpmcPop(t) ==
    /\ pc[t] = "idle" => takes < MaxPopsMpmc
    /\ Pop(t)

NextMpmc ==
    \/ \E t \in Producers : Push(t, MaxPushMpmc)
    \/ \E t \in Consumers : MpmcPop(t)
    \/ \E t \in Threads : SpuriousWake(t)

SpecMpmc == Init /\ [][NextMpmc]_vars

FairMpmc ==
    /\ SpecMpmc
    /\ \A t \in Producers : SF_vars(Push(t, MaxPushMpmc))
    /\ \A t \in Consumers : SF_vars(MpmcPop(t))

\* A process that creates further regions while its main thread clones and
\* drops handles of the first one.
NextNew ==
    \/ ShmNew
    \/ \E h \in HandleIds : ShmClone("main", h, "main")
    \/ \E h \in HandleIds : ShmDropDec("main", h)
    \/ \E h \in HandleIds : ShmDropCheck("main", h)

SpecNew == Init /\ [][NextNew]_vars

\* ================================================================== claims
Full == \A i \in 0..(RING_BUFFER_SIZE - 1) : rb.buffer[i] # None
Empty == \A i \in 0..(RING_BUFFER_SIZE - 1) : rb.buffer[i] = None

\* C1: with one producer (its k-th push carries the value k) and one
\* consumer, the k-th value pop returns is the k-th value pushed, also after
\* both indices have wrapped around the RING_BUFFER_SIZE slots.
C1_Fifo ==
    pc["c1"] = "pop_ret" => res["c1"] = Some(nret + 1)

\* a pop returns after more than RING_BUFFER_SIZE values went through the ring
C1_Witness ==
    /\ pc["c1"] = "pop_ret"
    /\ nret > RING_BUFFER_SIZE
    /\ res["c1"] = Some(nret + 1)
    /\ rb.read_idx < nret

\* C2: every pushed value is handed to at most one pop, try_pop or timed_pop,
\* counting the calls that have returned it and those about to return it.
C2_NoDuplicate ==
    /\ \A v \in DOMAIN returned : returned[v] = 1
    /\ \A t \in Threads :
          res[t] # None =>
             /\ res[t][1] \notin DOMAIN returned
             /\ \A u \in Threads \ {t} : res[u] # res[t]

\* two consumers hold values taken concurrently while a push is in progress
C2_Witness ==
    /\ res["c1"] # None
    /\ res["c2"] # None
    /\ pc["c1"] = "try_ret"
    /\ pc["c2"] = "tp_ret"
    /\ \E p \in Producers : pc[p] = "push_write"
    /\ nret > 0

\* C6: while no pop has taken an item, a push that finds fewer than
\* RING_BUFFER_SIZE items written writes its slot without having waited on
\* out_cond; a push that finds RING_BUFFER_SIZE items written waits on
\* out_cond and writes nothing, so at most RING_BUFFER_SIZE slots get written.
C6_FillThenBlock ==
    /\ [](takes = 0 => writes <= RING_BUFFER_SIZE)
    /\ [](\A t \in Producers :
            (takes = 0 /\ pc[t] = "push_ret") => ~waited[t])
    /\ [][\A t \in Producers :
            (takes = 0 /\ pc[t] = "push_write" /\ pc'[t] # "push_write") =>
               IF writes < RING_BUFFER_SIZE
               THEN /\ pc'[t] = "push_signal"
                    /\ ~waited'[t]
                    /\ writes' = writes + 1
               ELSE /\ pc'[t] = "push_wait"
                    /\ t \in out_wait'
                    /\ rb' = rb]_vars

\* the ring holds RING_BUFFER_SIZE items, nothing was taken, a push waits
C6_Witness ==
    /\ takes = 0
    /\ writes = RING_BUFFER_SIZE
    /\ Full
    /\ \E t \in Producers : pc[t] = "push_wait" /\ t \in out_wait /\ waited[t]

\* C7: no more than RING_BUFFER_SIZE + takes values are ever written; when
\* the ring is full, a push is blocked on it and a pop is still to come, one
\* more push eventually completes; the push completing after the first pop
\* on a full ring puts its value into slot 0, the slot that pop freed.
C7_Escape ==
    /\ [](writes <= RING_BUFFER_SIZE + takes)
    /\ \A n \in 0..(MaxPops - 1) :
          (/\ writes = RING_BUFFER_SIZE + n
           /\ takes = n
           /\ \E t \in Producers : pc[t] = "push_wait")
          ~> (writes = RING_BUFFER_SIZE + n + 1)
    /\ []((writes = RING_BUFFER_SIZE + 1 /\ takes = 1 /\ rb.write_idx = 1) =>
             /\ rb.buffer[0] # None
             /\ rb.buffer[0][1] > RING_BUFFER_SIZE)

\* all pops are done, one push beyond them has completed, another still waits
C7_Witness ==
    /\ takes = MaxPops
    /\ writes = RING_BUFFER_SIZE + MaxPops
    /\ Full
    /\ \E t \in Producers : pc[t] = "push_wait" /\ t \in out_wait
    /\ pc["c1"] = "idle"

\* C8: a try_pop that returns a value has signalled out_cond after releasing
\* the mutex.
C8_TryPopSignals ==
    \A t \in Consumers :
        (pc[t] = "try_ret" /\ res[t] # None) => sigOut[t]

\* C9: in a thread running alone, try_pop on an empty ring neither waits nor
\* changes the ring and returns absent; every try_pop returns the oldest
\* value written and not yet returned, and absent when there is none.
C9_TryPop ==
    /\ [](pc["c1"] = "try_ret" =>
            res["c1"] = IF nret < writes THEN Some(nret + 1) ELSE None)
    /\ [][(pc["c1"] = "try_read" /\ Empty) =>
            /\ rb' = rb
            /\ res'["c1"] = None
            /\ pc'["c1"] = "try_unlock"
            /\ in_wait' = {} /\ out_wait' = {}]_vars

\* after several pushes, a try_pop past the first returns a value in order
C9_Witness ==
    /\ pc["c1"] = "try_ret"
    /\ writes >= 3
    /\ nret >= 1
    /\ res["c1"] = Some(nret + 1)

\* C10 as stated: when try_pop returns a value, the slot at read_idx was
\* present when it acquired the mutex and is absent at the moment it returns.
C10_AbsentAtReturn ==
    \A t \in Consumers :
        (pc[t] = "try_ret" /\ res[t] # None) =>
            /\ lockSeen[t] # None
            /\ rb.buffer[lockSlot[t]] = None

\* C10 amended: the slot at read_idx was present when try_pop acquired the
\* mutex, holds the value returned, and is absent when try_pop releases the
\* mutex.
C10_AbsentAtUnlock ==
    \A t \in Consumers :
        /\ (pc[t] = "try_unlock" /\ res[t] # None) =>
              /\ lockSeen[t] = res[t]
              /\ rb.buffer[lockSlot[t]] = None
        /\ (pc[t] = "try_ret" /\ res[t] # None) => lockSeen[t] = res[t]

\* a try_pop has taken a value while a push and another pop are in progress
C10_Witness ==
    /\ pc["c1"] = "try_unlock"
    /\ res["c1"] # None
    /\ \E p \in Producers : pc[p] = "push_wait"
    /\ pc["c2"] = "pop_signal"

\* ------------------------------------------------------------------- Shm
\* the handles the program still holds: live, and not the copy of a closure
\* that spawn is throwing away in the parent
Held == {h \in HandleIds : handles[h].st = "live" /\ ~handles[h].closure}
AllReleased ==
    /\ \A h \in HandleIds : handles[h].st \in {"free", "dead"}
    /\ faulted = {}

\* C3: the payload destructor runs at most once, only in the release whose
\* fetch_sub took ref_ctr from 1 to 0, and it has run once when every handle
\* has been released.
C3_DestructorOnce ==
    /\ destroyed <= 1
    /\ \A h \in HandleIds : handles[h].ran => handles[h].prev = 1
    /\ AllReleased => destroyed = 1

\* C4: ref_ctr is the number of handles held, over all processes.
C4_RefCount ==
    ref_ctr = Cardinality(Held)

\* C5: with a clone made before spawn and moved into the child's closure,
\* ref_ctr reaches zero once, the payload is destroyed once, and neither
\* happens while the parent or the child still holds a handle.
C5_ZeroAtLastRelease ==
    /\ destroyed <= 1
    /\ zeroed <= 1
    /\ (destroyed > 0 \/ zeroed > 0) => Held = {}
    /\ AllReleased => (destroyed = 1 /\ zeroed = 1)

\* C11: clone() adds one to ref_ctr and touches nothing else; when the drop
\* of a clone completes and the live handles are again those clone() found,
\* ref_ctr is back at the value clone() found, the payload destructor and
\* the munmap have not run, and no step of the clone or of its drop changes
\* the ring or any other part of the Queue.
C11_CloneDrop ==
    [][\A h \in HandleIds :
         /\ (handles[h].st = "free" /\ handles'[h].st = "live") =>
               /\ ref_ctr' = ref_ctr + 1
               /\ UNCHANGED <<qvars, destroyed, mapped>>
         /\ (handles[h].st = "live" /\ handles'[h].st = "dec") =>
               /\ ref_ctr' = ref_ctr - 1
               /\ UNCHANGED <<qvars, destroyed, mapped>>
         /\ (/\ handles[h].st = "dec"
             /\ handles'[h].st = "dead"
             /\ handles[h].snap # {}
             /\ {g \in HandleIds : handles'[g].st = "live"} = handles[h].snap) =>
               /\ ref_ctr' = handles[h].base
               /\ ref_ctr' >= 1
               /\ UNCHANGED <<qvars, destroyed, mapped>>]_vars

\* a clone of the original handle has been dropped while the ring holds
\* values: the original is the only handle again
C11_Witness ==
    /\ handles[1].st = "live"
    /\ handles[2].st = "dead"
    /\ handles[3].st = "free"
    /\ ref_ctr = 1
    /\ destroyed = 0
    /\ mapped["parent"]
    /\ rb.buffer[rb.read_idx] # None

\* C12: a timed_pop(d) on an empty queue that receives no push returns
\* absent, and when it returns the clock has advanced by at least d since
\* the call.
C12_TimeoutLowerBound ==
    pc["c1"] = "tp_ret" =>
        /\ res["c1"] = None
        /\ err["c1"] = "Ok"
        /\ now >= start["c1"] + time["c1"]

\* C13: when the parent's loop has ended, it has collected one message per
\* child: as many messages as there are children, the value of each child's
\* single push exactly once.
C13_AllCollected ==
    prog["c1"] = "done" =>
        /\ nret = Cardinality(Producers)
        /\ \A v \in 1..Cardinality(Producers) :
              v \in DOMAIN returned /\ returned[v] = 1

\* the states in which a call has returned or is about to
Returning == {"idle", "push_ret", "pop_ret", "try_ret", "tp_ret"}

\* C14: no call ever carries the ring's Overflow as its result; an error
\* arises only in a step that calls lock, wait, timed_wait or signal, and is
\* that call's error; a push that finds the ring full waits on out_cond
\* with the ring untouched, unless that wait itself fails.
C14_NoOverflowError ==
    /\ [](\A t \in Threads : err[t] \in {"Ok"} \cup SysErrors)
    /\ [][\A t \in Threads :
            /\ (err'[t] # err[t] /\ err'[t] # "Ok") =>
                  \/ pc[t] = "idle" /\ err'[t] = "lock"
                  \/ pc[t] \in {"push_write", "pop_read"} /\ err'[t] = "wait"
                  \/ pc[t] = "tp_read" /\ err'[t] = "timed_wait"
                  \/ /\ pc[t] \in {"push_signal", "pop_signal", "tp_signal"}
                     /\ err'[t] = "signal"
            /\ (/\ pc[t] = "push_write"
                /\ pc'[t] # "push_write"
                /\ write(rb, val[t]).ret = "Overflow") =>
                  /\ rb' = rb
                  /\ \/ pc'[t] = "push_wait" /\ t \in out_wait' /\ err'[t] = "Ok"
                     \/ err'[t] = "wait"]_vars

\* a push waits on the full ring while a pop returns a primitive's error
C14_Witness ==
    /\ Full
    /\ pc["p1"] = "push_wait"
    /\ err["p1"] = "Ok"
    /\ pc["c1"] = "pop_ret"
    /\ err["c1"] \in SysErrors

\* C18: a thread whose push, pop, try_pop or timed_pop has returned, or
\* is at its return, does not hold the buffer mutex, whatever it returns.
C18_MutexReleased ==
    \A t \in Threads : pc[t] \in Returning => mutex # t

\* a timed_pop returns the error of its timed_wait, and a push that has got
\* the mutex since is in progress
C18_Witness ==
    /\ pc["c1"] = "tp_ret"
    /\ err["c1"] = "timed_wait"
    /\ mutex = "p1"

\* C15: write_idx and read_idx stay within 0..RING_BUFFER_SIZE-1; an index
\* changes only by one step forward, from RING_BUFFER_SIZE-1 back to 0, and
\* only in a step that writes (write_idx) or reads (read_idx) the ring.
C15_IndexRange ==
    /\ [](/\ rb.write_idx \in 0..(RING_BUFFER_SIZE - 1)
          /\ rb.read_idx \in 0..(RING_BUFFER_SIZE - 1))
    /\ [][/\ rb'.write_idx # rb.write_idx =>
               /\ rb'.write_idx = IF rb.write_idx = RING_BUFFER_SIZE - 1
                                   THEN 0 ELSE rb.write_idx + 1
               /\ rb'.read_idx = rb.read_idx
               /\ \E t \in Threads : pc[t] = "push_write" /\ mutex = t
          /\ rb'.read_idx # rb.read_idx =>
               /\ rb'.read_idx = IF rb.read_idx = RING_BUFFER_SIZE - 1
                                  THEN 0 ELSE rb.read_idx + 1
               /\ rb'.write_idx = rb.write_idx
               /\ \E t \in Threads :
                     /\ pc[t] \in {"pop_read", "try_read", "tp_read", "tp_read2"}
                     /\ mutex = t]_vars

\* write_idx has wrapped twice and is back at 0, read_idx is at the last slot
C15_Witness ==
    /\ writes = 2 * RING_BUFFER_SIZE
    /\ rb.write_idx = 0
    /\ rb.read_idx = RING_BUFFER_SIZE - 1

\* C17 as stated: a push or a pop that is about to signal its condition
\* variable has released the buffer mutex.
C17_SignalAfterUnlock ==
    \A t \in Threads :
        pc[t] \in {"push_signal", "pop_signal"} => mutex # t

\* C16: under fair scheduling no consumer stays forever in its wait on
\* in_cond while the ring holds an item, and no producer stays forever in
\* its wait on out_cond while the ring has a free slot.
C16_NoLostWakeup ==
    /\ \A t \in Consumers : []<>(pc[t] # "pop_wait" \/ Empty)
    /\ \A t \in Producers : []<>(pc[t] # "push_wait" \/ Full)

\* both producers wait on out_cond, a pop has freed a slot and is about to
\* signal out_cond, which wakes one of them; the other consumer waits too
C16_Witness ==
    /\ ~Full
    /\ out_wait = Producers
    /\ \A t \in Producers : pc[t] = "push_wait"
    /\ pc["c1"] = "pop_signal"
    /\ pc["c2"] = "pop_wait"

\* C19: all RING_BUFFER_SIZE slots are present exactly when the slot at
\* write_idx is present, and all are absent exactly when the slot at
\* read_idx is absent.
C19_FullEmpty ==
    /\ Full <=> rb.buffer[rb.write_idx] # None
    /\ Empty <=> rb.buffer[rb.read_idx] = None

\* the ring is full after both indices have wrapped, away from slot 0
C19_Witness ==
    /\ Full
    /\ writes > RING_BUFFER_SIZE
    /\ rb.write_idx = rb.read_idx
    /\ rb.write_idx > 0

\* C20 as stated: once Shm::new has returned a handle, the name it opened
\* the region under is no longer in the shared-memory namespace.
C20_NameUnlinked ==
    newst.pc = "done" => newst.shm_path \notin shm_names

\* C21 as stated: Shm::new returns the AlreadyExists error of shm_open
\* only after it has retried with a fresh name, that is after more than
\* one shm_open in the call.
C21_RetryOnCollision ==
    newst.pc = "failed" => newst.opens > 1

\* C22: timed_pop waits on in_cond at most once per call.  With a present
\* slot at read_idx when it holds the mutex it takes that value and does not
\* wait; with an empty ring it waits, leaving the ring alone.  After the
\* wait, a timeout yields absent, and a wake is followed by one re-check
\* that yields the value at read_idx if present and absent otherwise,
\* never by a second wait.  A step that yields absent leaves the ring
\* unchanged.
C22_SingleWait ==
    [][\A t \in Consumers :
         LET slot == rb.buffer[rb.read_idx]
             took == /\ res'[t] = slot
                     /\ rb' = try_read(rb).rb
                     /\ rb'.buffer[rb.read_idx] = None
                     /\ pc'[t] = "tp_unlock"
                     /\ t \notin in_wait'
         IN
         /\ (pc'[t] = "tp_read" /\ pc[t] # "tp_read") => pc[t] = "idle"
         /\ (pc'[t] = "tp_wait" /\ pc[t] # "tp_wait") => pc[t] = "tp_read"
         /\ (pc[t] = "tp_read" /\ pc'[t] # "tp_read" /\ err'[t] = "Ok") =>
               IF slot # None
               THEN took
               ELSE pc'[t] = "tp_wait" /\ t \in in_wait' /\ rb' = rb
         /\ (pc[t] = "tp_timeout" /\ pc'[t] # "tp_timeout") =>
               res'[t] = None /\ rb' = rb /\ pc'[t] = "tp_unlock"
         /\ (pc[t] = "tp_read2" /\ pc'[t] # "tp_read2") =>
               IF slot # None
               THEN took
               ELSE res'[t] = None /\ rb' = rb /\ pc'[t] = "tp_unlock"
      ]_vars

\* A timed_pop that waited, was woken before its deadline with the ring
\* still empty after earlier pushes, and is about to return absent.
C22_Witness ==
    /\ pc["c1"] = "tp_unlock"
    /\ res["c1"] = None
    /\ err["c1"] = "Ok"
    /\ now < abstime["c1"]
    /\ writes > 0
    /\ Empty

\* the slots that hold a value
Present == {i \in 0..(RING_BUFFER_SIZE - 1) : rb.buffer[i] # None}
\* the n slots from index r on, going round the ring
Run(r, n) == {(r + k) % RING_BUFFER_SIZE : k \in 0..(n - 1)}

\* C23: the present slots are exactly the circular run from read_idx up to
\* but not including write_idx; read_idx equals write_idx only when the
\* ring is empty or full; the number of present slots is the number of
\* successful writes minus the number of successful reads and lies in
\* 0..RING_BUFFER_SIZE.
C23_CircularRun ==
    LET n == Cardinality(Present) IN
    /\ n = writes - takes
    /\ n \in 0..RING_BUFFER_SIZE
    /\ Present = Run(rb.read_idx, n)
    /\ (rb.read_idx + n) % RING_BUFFER_SIZE = rb.write_idx
    /\ rb.read_idx = rb.write_idx => (Empty \/ Full)

\* a partly filled ring whose run of present slots goes round the end of
\* the array: write_idx has wrapped and is behind read_idx
C23_Witness ==
    /\ writes > RING_BUFFER_SIZE
    /\ 0 < rb.write_idx
    /\ rb.write_idx < rb.read_idx
    /\ Present # {}
    /\ ~Full

====
